---- MODULE Spec2Model ----
(***************************************************************************)
(* PhotoGallery-Mobile: the authenticated API access layer.                *)
(*                                                                         *)
(* The model follows services/api.ts (secureStorage, the request and the   *)
(* response interceptor of apiClient, authApi, imagesApi), the thunks and  *)
(* reducers of store/slices/authSlice.ts and imagesSlice.ts, and the       *)
(* classifier parseLoginError of utils/errorHandling.                      *)
(*                                                                         *)
(* Every await of the code is one step of the model: the platform storage  *)
(* call (getItem / setItem / deleteItem), the network dispatch and its     *)
(* answer, the refresh call and its answer.  Code that runs between two    *)
(* awaits (microtasks only) is part of the step that ends the earlier      *)
(* await.  Several thunks run concurrently: tasks is the bag of them.      *)
(*                                                                         *)
(* Conventions: token 0 is "no token" (null), status 0 is "no HTTP         *)
(* response" (error.response undefined), status -1 is "nothing yet".       *)
(* Strings of the source that are not ASCII are written as ASCII tags; the *)
(* operator Includes gives the substrings the code tests for.              *)
(***************************************************************************)
EXTENDS Integers, FiniteSets, Sequences, Bags, TLC

\* ---------------------------------------------------------------- bounds
MaxTok == 3        \* tokens the backend mints in one run
MaxStarts == 3     \* thunks dispatched in one run
MaxFaults == 1     \* platform storage calls that throw in one run

\* ------------------------------------------------------------- constants
NoInput == [kind |-> "none"]
NoOutput == [op |-> "none"]
NoTokens == [access |-> 0, refresh |-> 0]
NoResult ==
    [ok |-> FALSE, src |-> "none", status |-> -1, body |-> {},
     request |-> FALSE, message |-> ""]

\* HTTP outcomes of a dispatch: 0 is a failure without response
ErrorStatuses == {0, 400, 401, 403, 429, 500}
\* outcomes of a failed POST /token/refresh/
RefreshFailures == {0, 401, 500}

IOOutcomes == {"ok", "fail"}

VARIABLES
    store,      \* the value under TOKEN_KEY in the platform store, or NoTokens
    lastIO,     \* outcome of the platform storage call of the last step
                \* ("none": the last step made no storage call)
    minted,     \* number of tokens the backend has issued so far
    auth,       \* the auth slice of the Redux store
    images,     \* the images slice of the Redux store (its error field)
    started,    \* number of thunks dispatched so far
    faults,     \* number of platform storage calls that have thrown so far
    tasks,      \* the bag of thunks in flight, each with its current request
    input,      \* the argument of the function under examination
    output      \* what that function returned (or that it threw)

vars == <<store, lastIO, minted, auth, images, started, faults, tasks,
          input, output>>

\* AppInitializer's effect has dispatched checkAuthStatus
booted == started > 0

\* a thunk of the given kind that has not yet issued a request
NewTask(k, p) ==
    [kind |-> k, pc |-> p, url |-> "none", retry |-> FALSE,
     hdr |-> 0, ndisp |-> 0, nrefresh |-> 0, parsed |-> NoTokens,
     newAccess |-> 0, lastResp |-> -1, data |-> NoTokens, res |-> NoResult]

\* a fresh request of the running thunk: a new axios config
NewRequest(t, u) ==
    [t EXCEPT !.pc = "attach", !.url = u, !.retry = FALSE, !.hdr = 0,
              !.ndisp = 0, !.nrefresh = 0, !.parsed = NoTokens,
              !.newAccess = 0, !.lastResp = -1, !.res = NoResult]

initialAuthState ==
    [user |-> FALSE, tokens |-> NoTokens, isAuthenticated |-> FALSE,
     isLoading |-> FALSE, error |-> "null"]

initialImagesState == [error |-> "null"]

\* ------------------------------------------------------- secureStorage
\* getItem: the stored value, or null when the platform call throws
getItem(st, io) == IF io = "ok" THEN st ELSE NoTokens

\* a setItem that writes nothing
setItemDrops(st, value, io) == st

\* a setItem that writes only into an empty store
setItemOnce(st, value, io) == IF io = "ok" /\ st = NoTokens THEN value ELSE st

\* setItem: writes the value; a platform failure is logged and swallowed
setItem(st, value, io) == IF io = "ok" THEN value ELSE st

\* how the promise of setItem settles: the catch logs and returns
setItemSettled(io) == "fulfilled"

deleteItemKeeps(st, io) == st

\* a deleteItem whose catch throws the platform's exception again
deleteItemRethrows(io) == IF io = "ok" THEN "fulfilled" ELSE "rejected"

\* how the promise of deleteItem settles: the catch logs and returns
deleteItemSettled(io) == "fulfilled"

\* how authApi.logout settles, given how its deleteItem settled: its own
\* catch logs and returns
logoutSettled(inner) == "fulfilled"

\* deleteItem: removes the value; a platform failure is logged and swallowed
deleteItem(st, io) == IF io = "ok" THEN NoTokens ELSE st

\* ------------------------------------------------- request interceptor
\* the Authorization header of the outgoing config (0: none)
RequestHeaderStale(tokens, hdr) == hdr

RequestHeader(tokens, hdr) ==
    IF tokens # NoTokens THEN tokens.access ELSE hdr

\* ------------------------------------------------ response interceptor
ShouldRefreshNoMarker(status, retry) == status = 401

ShouldRefreshAnyError(status, retry) == ~retry

\* error.response?.status === 401 && originalRequest && !originalRequest._retry
ShouldRefresh(status, retry) == status = 401 /\ ~retry

\* what POST /token/refresh/ can answer with the new access token tok: the
\* access token alone (refresh 0: no such field) or a new refresh token too
RefreshResponses(tok) == {[access |-> tok, refresh |-> r] : r \in {0, tok}}

\* a refresh that persists the response as it came
NewTokensRotated(parsed, data) == data

\* the pair persisted after a successful refresh:
\* { access: refreshResponse.data.access, refresh: parsedTokens.refresh }
NewTokens(parsed, data) == [access |-> data.access, refresh |-> parsed.refresh]

\* the AxiosError of a dispatch that was sent: error.response (status and
\* data; status 0: no response), error.request, error.message
RequestError(status) ==
    [ok |-> FALSE, src |-> "request", status |-> status, body |-> {},
     request |-> TRUE, message |-> "axios_message"]
RefreshError(status) ==
    [ok |-> FALSE, src |-> "refresh", status |-> status, body |-> {},
     request |-> TRUE, message |-> "axios_message"]
Success ==
    [ok |-> TRUE, src |-> "request", status |-> 200, body |-> {},
     request |-> TRUE, message |-> ""]

RefreshRejectionOriginal(original, refreshError) == original

\* catch (refreshError) { ...; return Promise.reject(refreshError) }
RefreshRejection(original, refreshError) == refreshError

\* --------------------------------------------------------- classifier
\* Messages are tags; Includes(message, keyword) says whether the text the
\* tag stands for contains the substring the code tests for:
\*   keyword "network" is the word of the status-less test (line 18),
\*   "username", "password", "timeout_cn", "timeout" those of the default
\*   branch (lines 75, 84, 93).
Includes(message, keyword) ==
    <<message, keyword>> \in
        { <<"network_connection_failed", "network">>,
          <<"network_timed_out", "network">>,
          <<"network_timed_out", "timeout_cn">>,
          <<"connection_timed_out", "timeout_cn">>,
          <<"timeout_exceeded", "timeout">>,
          <<"username_detail", "username">>,
          <<"password_detail", "password">>,
          <<"bad_credentials", "username">>,
          <<"bad_credentials", "password">> }

\* the message handleApiError builds from response.data; the body is the
\* set of the fields it holds, {"string"} when it is a plain string
BodyMessage(body) ==
    IF "detail" \in body THEN "detail_text"
    ELSE IF "non_field_errors" \in body THEN "non_field_text"
    ELSE IF "username" \in body THEN "username_detail"
    ELSE IF "password" \in body THEN "password_detail"
    ELSE IF "message" \in body THEN "body_message"
    ELSE IF "string" \in body THEN "body_string"
    ELSE "request_failed"

\* handleApiError: the ApiError thrown to the thunk (status 0: no status)
handleApiError(error) ==
    IF error.status # 0
    THEN [shape |-> "object", message |-> BodyMessage(error.body),
          status |-> error.status, code |-> "none"]
    ELSE IF error.request
    THEN [shape |-> "object", message |-> "network_connection_failed",
          status |-> 0, code |-> "NETWORK_ERROR"]
    ELSE [shape |-> "object",
          message |-> IF error.message = "" THEN "unknown_error"
                      ELSE error.message,
          status |-> 0, code |-> "UNKNOWN_ERROR"]

\* the LoginError parseLoginError returns
LoginError(type, message, retryable, error) ==
    [threw |-> FALSE, type |-> type, message |-> message,
     retryable |-> retryable, originalError |-> error]

\* a TypeError leaves parseLoginError instead of a LoginError
Thrown(error) ==
    [threw |-> TRUE, type |-> "TypeError", message |-> "none",
     retryable |-> FALSE, originalError |-> error]

\* a classifier that looks at the message before the status
parseLoginErrorMessageFirst(error) ==
    IF Includes(error.message, "username")
    THEN LoginError("validation", "username_not_found", FALSE, error)
    ELSE IF Includes(error.message, "password")
    THEN LoginError("authentication", "password_wrong", FALSE, error)
    ELSE LoginError("unknown", "login_failed_retry_later", TRUE, error)

\* parseLoginError(error: any).  error.shape is the kind of JavaScript
\* value: "null", "undefined", "string" (a primitive: its .status and
\* .message are undefined) or "object"; an object has status (0: absent)
\* and message ("absent": undefined, "not_a_string": a value without
\* includes(), else a text).
parseLoginErrorUnguarded(error) ==
    LET status == IF error.shape = "object" THEN error.status ELSE 0
        message == IF error.shape = "object" THEN error.message ELSE "absent"
        errorMessage == IF message = "absent" THEN "" ELSE message
    IN  IF status = 0 /\ Includes(message, "network")
        THEN LoginError("network", "check_network_and_retry", TRUE, error)
        ELSE CASE status = 400 ->
                    LoginError("validation", "bad_format_check_input", FALSE, error)
               [] status = 401 ->
                    LoginError("authentication", "wrong_credentials_reenter", FALSE, error)
               [] status = 403 ->
                    LoginError("authentication", "account_disabled", FALSE, error)
               [] status = 429 ->
                    LoginError("server", "too_many_attempts_later", TRUE, error)
               [] status \in {500, 502, 503} ->
                    LoginError("server", "server_unavailable", TRUE, error)
               [] OTHER ->
                    IF Includes(errorMessage, "username")
                    THEN LoginError("validation", "username_not_found", FALSE, error)
                    ELSE IF Includes(errorMessage, "password")
                    THEN LoginError("authentication", "password_wrong", FALSE, error)
                    ELSE IF Includes(errorMessage, "timeout_cn")
                            \/ Includes(errorMessage, "timeout")
                    THEN LoginError("network", "connection_timed_out_retry", TRUE, error)
                    ELSE LoginError("unknown", "login_failed_retry_later", TRUE, error)

parseLoginError(error) ==
    IF error.shape \in {"null", "undefined"}
    THEN Thrown(error)                 \* error.status of null
    ELSE IF error.shape = "object" /\ error.message = "not_a_string"
            /\ error.status \notin {400, 401, 403, 429, 500, 502, 503}
    THEN Thrown(error)                 \* message.includes is not a function
    ELSE parseLoginErrorUnguarded(error)

\* ------------------------------------------------------ auth reducers
loginPending(a) == [a EXCEPT !.isLoading = TRUE, !.error = "null"]

loginFulfilled(a, tokens) ==
    [a EXCEPT !.isLoading = FALSE, !.user = TRUE, !.tokens = tokens,
              !.isAuthenticated = TRUE, !.error = "null"]

loginRejected(a, payload) ==
    [a EXCEPT !.isLoading = FALSE, !.error = payload, !.isAuthenticated = FALSE]

getCurrentUserPending(a) == [a EXCEPT !.isLoading = TRUE]

getCurrentUserFulfilled(a) ==
    [a EXCEPT !.isLoading = FALSE, !.user = TRUE, !.isAuthenticated = TRUE]

getCurrentUserRejected(a, payload) ==
    [a EXCEPT !.isLoading = FALSE, !.error = payload]

checkAuthStatusPending(a) == [a EXCEPT !.isLoading = TRUE]

\* payload: TRUE for a user object, FALSE for null
checkAuthStatusFulfilled(a, payload) ==
    IF payload
    THEN [a EXCEPT !.isLoading = FALSE, !.user = TRUE, !.isAuthenticated = TRUE]
    ELSE [a EXCEPT !.isLoading = FALSE, !.user = FALSE, !.isAuthenticated = FALSE]

logoutFulfilled(a) ==
    [a EXCEPT !.user = FALSE, !.tokens = NoTokens, !.isAuthenticated = FALSE,
              !.error = "null"]

\* the message loginUser rejects with
loginErrorMessage(apiError) ==
    CASE apiError.status = 401 -> "bad_credentials"
      [] apiError.status = 400 -> "bad_request_format"
      [] apiError.status = 429 -> "too_many_attempts"
      [] apiError.status = 500 -> "server_internal_error"
      [] apiError.code = "NETWORK_ERROR" -> "network_connection_failed"
      [] OTHER -> apiError.message

\* ---------------------------------------------------- images reducers
fetchImagesPending(i) == [i EXCEPT !.error = "null"]
fetchImagesFulfilled(i) == [i EXCEPT !.error = "null"]
fetchImagesRejected(i, payload) == [i EXCEPT !.error = payload]

\* ----------------------------------------------------------------- Init
Init ==
    /\ store \in {NoTokens, [access |-> 1, refresh |-> 1]}
    /\ lastIO = "none"
    /\ minted = 1
    /\ auth = initialAuthState
    /\ images = initialImagesState
    /\ started = 0
    /\ faults = 0
    /\ tasks = EmptyBag
    /\ input = NoInput
    /\ output = NoOutput

Running == BagToSet(tasks)

\* a thunk is dispatched
Add(t) ==
    /\ started < MaxStarts
    /\ started' = started + 1
    /\ tasks' = tasks (+) SetToBag({t})

\* a thunk in flight takes a step
Replace(t, t2) ==
    /\ tasks' = (tasks (-) SetToBag({t})) (+) SetToBag({t2})
    /\ started' = started

\* a thunk has dispatched its last action
Remove(t) ==
    /\ tasks' = tasks (-) SetToBag({t})
    /\ started' = started

\* the outcomes the platform store can give to the next call
IOChoices == IF faults < MaxFaults THEN IOOutcomes ELSE {"ok"}

\* a step that makes one platform storage call, with outcome io
StorageCall(io) ==
    /\ lastIO' = io
    /\ faults' = IF io = "fail" THEN faults + 1 ELSE faults

\* a step that makes no platform storage call
NoStorageCall ==
    /\ lastIO' = "none"
    /\ faults' = faults

\* ------------------------------------------------------ thunk dispatch
\* AppInitializer: dispatch(checkAuthStatus()) once, when the app mounts
StartCheckAuthStatus ==
    /\ ~booted
    /\ Add(NewTask("checkAuthStatus", "hasToken"))
    /\ auth' = checkAuthStatusPending(auth)
    /\ NoStorageCall
    /\ UNCHANGED <<store, minted, images, input, output>>

\* LoginScreen.handleLogin: the screen is shown while unauthenticated and
\* its button is disabled while auth.isLoading
StartLogin ==
    /\ booted
    /\ ~auth.isAuthenticated
    /\ ~auth.isLoading
    /\ Add(NewRequest(NewTask("loginUser", "attach"), "/token/"))
    /\ auth' = loginPending(auth)
    /\ NoStorageCall
    /\ UNCHANGED <<store, minted, images, input, output>>

\* HomeScreen.loadData / GalleryScreen.loadImages: authenticated screens
StartFetchImages ==
    /\ booted
    /\ auth.isAuthenticated
    /\ Add(NewRequest(NewTask("fetchImages", "attach"), "/images/"))
    /\ images' = fetchImagesPending(images)
    /\ NoStorageCall
    /\ UNCHANGED <<store, minted, auth, input, output>>

\* dispatch(getCurrentUser()): the thunk is exported, no screen dispatches it;
\* it is part of ApiSpec only
StartGetCurrentUser ==
    /\ booted
    /\ auth.isAuthenticated
    /\ Add(NewRequest(NewTask("getCurrentUser", "attach"), "/me/"))
    /\ auth' = getCurrentUserPending(auth)
    /\ NoStorageCall
    /\ UNCHANGED <<store, minted, images, input, output>>

\* HomeScreen.handleLogout / ProfileScreen.handleLogout
StartLogout ==
    /\ booted
    /\ auth.isAuthenticated
    /\ Add(NewTask("logoutUser", "logout"))
    /\ NoStorageCall
    /\ UNCHANGED <<store, minted, auth, images, input, output>>

\* --------------------------------------------------- request pipeline
\* request interceptor (await getItem, set the header), then the dispatch
Attach(t) ==
    /\ t.pc = "attach"
    /\ \E io \in IOChoices :
         /\ StorageCall(io)
         /\ Replace(t, [t EXCEPT
                          !.hdr = RequestHeader(getItem(store, io), t.hdr),
                          !.ndisp = @ + 1,
                          !.pc = "sent"])
    /\ UNCHANGED <<store, minted, auth, images, input, output>>

\* the backend answers 2xx; POST /token/ returns a freshly minted pair
RespondOk(t) ==
    /\ t.pc = "sent"
    /\ IF t.url = "/token/"
       THEN /\ minted < MaxTok
            /\ minted' = minted + 1
            /\ Replace(t, [t EXCEPT
                             !.lastResp = 200, !.res = Success, !.pc = "resolved",
                             !.data = [access |-> minted + 1, refresh |-> minted + 1]])
       ELSE /\ minted' = minted
            /\ Replace(t, [t EXCEPT
                             !.lastResp = 200, !.res = Success, !.pc = "resolved"])
    /\ NoStorageCall
    /\ UNCHANGED <<store, auth, images, input, output>>

\* the dispatch fails and the failure is no reason to refresh:
\* response interceptor, return Promise.reject(error)
RespondError(t) ==
    /\ t.pc = "sent"
    /\ \E status \in ErrorStatuses :
         /\ ~ShouldRefresh(status, t.retry)
         /\ Replace(t, [t EXCEPT
                          !.lastResp = status, !.res = RequestError(status),
                          !.pc = "resolved"])
    /\ NoStorageCall
    /\ UNCHANGED <<store, minted, auth, images, input, output>>

\* a response interceptor that shares a refresh already in flight
RespondUnauthorizedCoalesced(t) ==
    /\ t.pc = "sent"
    /\ \E status \in ErrorStatuses, io \in IOChoices :
         /\ ShouldRefresh(status, t.retry)
         /\ StorageCall(io)
         /\ LET tokens == getItem(store, io) IN
            IF tokens # NoTokens
            THEN IF \E u \in Running : u.pc = "refreshing"
                 THEN Replace(t, [t EXCEPT
                                    !.lastResp = status, !.retry = TRUE,
                                    !.pc = "attach"])
                 ELSE Replace(t, [t EXCEPT
                                    !.lastResp = status, !.retry = TRUE,
                                    !.parsed = tokens, !.nrefresh = @ + 1,
                                    !.pc = "refreshing"])
            ELSE Replace(t, [t EXCEPT
                               !.lastResp = status, !.retry = TRUE,
                               !.res = RequestError(status), !.pc = "resolved"])
    /\ UNCHANGED <<store, minted, auth, images, input, output>>

\* a response interceptor without the `if (tokens)` test: it posts the
\* refresh call with whatever the store returned
RespondUnauthorizedUnguarded(t) ==
    /\ t.pc = "sent"
    /\ \E status \in ErrorStatuses, io \in IOChoices :
         /\ ShouldRefresh(status, t.retry)
         /\ StorageCall(io)
         /\ Replace(t, [t EXCEPT
                          !.lastResp = status, !.retry = TRUE,
                          !.parsed = getItem(store, io), !.nrefresh = @ + 1,
                          !.pc = "refreshing"])
    /\ UNCHANGED <<store, minted, auth, images, input, output>>

\* the dispatch fails with 401 on a request not yet retried: response
\* interceptor, _retry = true, await getItem; with tokens the refresh call
\* is posted, without tokens the original error is rejected
RespondUnauthorized(t) ==
    /\ t.pc = "sent"
    /\ \E status \in ErrorStatuses, io \in IOChoices :
         /\ ShouldRefresh(status, t.retry)
         /\ StorageCall(io)
         /\ LET tokens == getItem(store, io) IN
            IF tokens # NoTokens
            THEN Replace(t, [t EXCEPT
                               !.lastResp = status, !.retry = TRUE,
                               !.parsed = tokens, !.nrefresh = @ + 1,
                               !.pc = "refreshing"])
            ELSE Replace(t, [t EXCEPT
                               !.lastResp = status, !.retry = TRUE,
                               !.res = RequestError(status), !.pc = "resolved"])
    /\ UNCHANGED <<store, minted, auth, images, input, output>>

\* POST /token/refresh/ answers with a new access token: await setItem of
\* the new pair, set the header, return apiClient(originalRequest)
RefreshOk(t) ==
    /\ t.pc = "refreshing"
    /\ minted < MaxTok
    /\ minted' = minted + 1
    /\ \E io \in IOChoices, data \in RefreshResponses(minted + 1) :
         /\ StorageCall(io)
         /\ store' = setItem(store, NewTokens(t.parsed, data), io)
         /\ Replace(t, [t EXCEPT
                          !.newAccess = data.access, !.hdr = data.access,
                          !.pc = "attach"])
    /\ UNCHANGED <<auth, images, input, output>>

\* POST /token/refresh/ fails: catch, await deleteItem, reject
RefreshFail(t) ==
    /\ t.pc = "refreshing"
    /\ \E io \in IOChoices :
         /\ StorageCall(io)
         /\ store' = deleteItem(store, io)
    /\ \E status \in RefreshFailures :
         Replace(t, [t EXCEPT
                       !.res = RefreshRejection(RequestError(t.lastResp),
                                                RefreshError(status)),
                       !.pc = "resolved"])
    /\ UNCHANGED <<minted, auth, images, input, output>>

\* ----------------------------------------------- thunk continuations
\* fetchImages: imagesApi.getImages settled; fulfilled / rejected reducer
FetchImagesSettle(t) ==
    /\ t.kind = "fetchImages"
    /\ t.pc = "resolved"
    /\ images' = IF t.res.ok
                 THEN fetchImagesFulfilled(images)
                 ELSE fetchImagesRejected(images, handleApiError(t.res).message)
    /\ Remove(t)
    /\ NoStorageCall
    /\ UNCHANGED <<store, minted, auth, input, output>>

\* getCurrentUser: authApi.getCurrentUser settled
GetCurrentUserSettle(t) ==
    /\ t.kind = "getCurrentUser"
    /\ t.pc = "resolved"
    /\ auth' = IF t.res.ok
               THEN getCurrentUserFulfilled(auth)
               ELSE getCurrentUserRejected(auth, handleApiError(t.res).message)
    /\ Remove(t)
    /\ NoStorageCall
    /\ UNCHANGED <<store, minted, images, input, output>>

\* loginUser: POST /token/ succeeded inside authApi.login: await setItem of
\* response.data, then authApi.getCurrentUser()
LoginSave(t) ==
    /\ t.kind = "loginUser"
    /\ t.url = "/token/"
    /\ t.pc = "resolved"
    /\ t.res.ok
    /\ \E io \in IOChoices :
         /\ StorageCall(io)
         /\ store' = setItem(store, t.data, io)
    /\ Replace(t, NewRequest(t, "/me/"))
    /\ UNCHANGED <<minted, auth, images, input, output>>

\* loginUser: POST /token/ failed: rejectWithValue(errorMessage)
LoginTokenRejected(t) ==
    /\ t.kind = "loginUser"
    /\ t.url = "/token/"
    /\ t.pc = "resolved"
    /\ ~t.res.ok
    /\ auth' = loginRejected(auth, loginErrorMessage(handleApiError(t.res)))
    /\ Remove(t)
    /\ NoStorageCall
    /\ UNCHANGED <<store, minted, images, input, output>>

\* loginUser: GET /me/ settled; fulfilled / rejected reducer
LoginMeSettle(t) ==
    /\ t.kind = "loginUser"
    /\ t.url = "/me/"
    /\ t.pc = "resolved"
    /\ auth' = IF t.res.ok
               THEN loginFulfilled(auth, t.data)
               ELSE loginRejected(auth, loginErrorMessage(handleApiError(t.res)))
    /\ Remove(t)
    /\ NoStorageCall
    /\ UNCHANGED <<store, minted, images, input, output>>

\* checkAuthStatus: hasValidToken(); without a token the thunk returns null
CheckHasToken(t) ==
    /\ t.pc = "hasToken"
    /\ \E io \in IOChoices :
         /\ StorageCall(io)
         /\ IF getItem(store, io) # NoTokens
            THEN /\ Replace(t, NewRequest(t, "/me/"))
                 /\ auth' = auth
            ELSE /\ Remove(t)
                 /\ auth' = checkAuthStatusFulfilled(auth, FALSE)
    /\ UNCHANGED <<store, minted, images, input, output>>

\* checkAuthStatus: GET /me/ succeeded; fulfilled with the user
CheckFulfilled(t) ==
    /\ t.kind = "checkAuthStatus"
    /\ t.pc = "resolved"
    /\ t.res.ok
    /\ auth' = checkAuthStatusFulfilled(auth, TRUE)
    /\ Remove(t)
    /\ NoStorageCall
    /\ UNCHANGED <<store, minted, images, input, output>>

\* checkAuthStatus: GET /me/ failed: catch, await authApi.logout(), null
CheckFailed(t) ==
    /\ t.kind = "checkAuthStatus"
    /\ t.pc = "resolved"
    /\ ~t.res.ok
    /\ \E io \in IOChoices :
         /\ StorageCall(io)
         /\ store' = deleteItem(store, io)
    /\ auth' = checkAuthStatusFulfilled(auth, FALSE)
    /\ Remove(t)
    /\ UNCHANGED <<minted, images, input, output>>

\* logoutUser: authApi.logout (await deleteItem), then the fulfilled reducer
Logout(t) ==
    /\ t.kind = "logoutUser"
    /\ t.pc = "logout"
    /\ \E io \in IOChoices :
         /\ StorageCall(io)
         /\ store' = deleteItem(store, io)
    /\ auth' = logoutFulfilled(auth)
    /\ Remove(t)
    /\ UNCHANGED <<minted, images, input, output>>

\* ----------------------------------------------------------------- Next
\* steps the user or the app start-up takes
Start ==
    \/ StartCheckAuthStatus
    \/ StartLogin
    \/ StartFetchImages
    \/ StartLogout

\* steps that complete an await: the platform store, the network, the backend
Progress ==
    \/ \E t \in Running : Attach(t)
    \/ \E t \in Running : RespondOk(t)
    \/ \E t \in Running : RespondError(t)
    \/ \E t \in Running : RespondUnauthorized(t)
    \/ \E t \in Running : RefreshOk(t)
    \/ \E t \in Running : RefreshFail(t)
    \/ \E t \in Running : FetchImagesSettle(t)
    \/ \E t \in Running : LoginSave(t)
    \/ \E t \in Running : LoginTokenRejected(t)
    \/ \E t \in Running : LoginMeSettle(t)
    \/ \E t \in Running : CheckHasToken(t)
    \/ \E t \in Running : CheckFulfilled(t)
    \/ \E t \in Running : CheckFailed(t)
    \/ \E t \in Running : Logout(t)

Next == Start \/ Progress

Spec == Init /\ [][Next]_vars

\* the same with the exported getCurrentUser thunk dispatched as well
ApiNext ==
    \/ Next
    \/ StartGetCurrentUser
    \/ \E t \in Running : GetCurrentUserSettle(t)

ApiSpec == Init /\ [][ApiNext]_vars

\* every started await completes: the store answers, axios times out after
\* 10 s; nothing obliges the user to start anything
FairSpec == Spec /\ WF_vars(Progress)

\* ------------------------------------------------- the classifier alone
\* values handed to parseLoginError and AxiosErrors handed to handleApiError
Shapes == {"null", "undefined", "string", "object"}
Statuses == {0, 400, 401, 403, 404, 429, 500, 502, 503}
Messages ==
    {"absent", "not_a_string", "", "network_connection_failed",
     "network_timed_out", "connection_timed_out", "timeout_exceeded",
     "username_detail", "password_detail", "bad_credentials",
     "request_failed", "detail_text"}
Bodies ==
    {{}, {"detail"}, {"non_field_errors"}, {"username"}, {"password"},
     {"message"}, {"string"}, {"username", "password"},
     {"detail", "username"}}

\* a JavaScript value given to parseLoginError
Value(shape, status, message) ==
    [kind |-> "value", shape |-> shape, status |-> status,
     message |-> message, body |-> {}, request |-> FALSE]

\* an AxiosError given to handleApiError
AxiosError(status, body, request, message) ==
    [kind |-> "axios", shape |-> "object", status |-> status,
     message |-> message, body |-> body, request |-> request]

ClassifierInputs ==
    {Value(shape, 0, "absent") : shape \in Shapes \ {"object"}}
    \cup {Value("object", status, message) :
              status \in Statuses, message \in Messages}
    \cup {AxiosError(status, body, TRUE, "axios_message") :
              status \in Statuses \ {0}, body \in Bodies}
    \cup {AxiosError(0, {}, request, message) :
              request \in BOOLEAN,
              message \in {"", "timeout_exceeded", "axios_message"}}

ClassifierInit ==
    /\ store = NoTokens
    /\ lastIO = "none"
    /\ minted = 1
    /\ auth = initialAuthState
    /\ images = initialImagesState
    /\ started = 0
    /\ faults = 0
    /\ tasks = EmptyBag
    /\ input \in ClassifierInputs
    /\ output = NoOutput

\* parseLoginError(error) is called on the value
Classify ==
    /\ input.kind = "value"
    /\ output.op = "none"
    /\ output' = [op |-> "parseLoginError", apiError |-> input,
                  result |-> parseLoginError(input)]
    /\ UNCHANGED <<store, lastIO, minted, auth, images, started, faults,
                   tasks, input>>

\* an api function catches the AxiosError: throw handleApiError(error);
\* the ApiError thrown is then classified
ClassifyApiError ==
    /\ input.kind = "axios"
    /\ output.op = "none"
    /\ output' = [op |-> "handleApiError", apiError |-> handleApiError(input),
                  result |-> parseLoginError(handleApiError(input))]
    /\ UNCHANGED <<store, lastIO, minted, auth, images, started, faults,
                   tasks, input>>

\* loginUser fails on the AxiosError: authApi.login throws
\* handleApiError(error), the thunk's catch rejects with errorMessage, the
\* rejected reducer stores it as auth.error; LoginScreen's effect on error
\* builds loginError = parseLoginError({ message: error }) and handleLogin's
\* catch builds the toast from parseLoginError(payload), the payload being
\* the string unwrap() throws.  result is the classification of the
\* ApiError itself.
ClassifyLoginRejection ==
    /\ input.kind = "axios"
    /\ output.op = "none"
    /\ LET apiError == handleApiError(input)
           payload == loginErrorMessage(apiError)
           error == loginRejected(loginPending(initialAuthState), payload).error
       IN  output' = [op |-> "loginUser", apiError |-> apiError,
                      result |-> parseLoginError(apiError),
                      payload |-> payload,
                      loginError |-> parseLoginError(Value("object", 0, error)),
                      toast |-> parseLoginError(Value("string", 0, "absent"))]
    /\ UNCHANGED <<store, lastIO, minted, auth, images, started, faults,
                   tasks, input>>

ClassifierNext == Classify \/ ClassifyApiError \/ ClassifyLoginRejection

ClassifierSpec == ClassifierInit /\ [][ClassifierNext]_vars

\* -------------------------------------------- the credential store alone
\* the values the platform store can hold under TOKEN_KEY
StoredValues ==
    {NoTokens} \cup {[access |-> a, refresh |-> r] : a, r \in 1..MaxTok}

StorageInit ==
    /\ store \in StoredValues
    /\ lastIO = "none"
    /\ minted = 1
    /\ auth = initialAuthState
    /\ images = initialImagesState
    /\ started = 0
    /\ faults = 0
    /\ tasks = EmptyBag
    /\ input = [kind |-> "storage"]
    /\ output = NoOutput

\* what a call of a secureStorage function did
Called(op, io, value, settled, caller) ==
    [op |-> op, before |-> store, io |-> io, value |-> value,
     settled |-> settled, caller |-> caller]

\* await secureStorage.setItem(TOKEN_KEY, JSON.stringify(value))
Save ==
    \E value \in StoredValues \ {NoTokens}, io \in IOOutcomes :
        /\ store' = setItem(store, value, io)
        /\ lastIO' = io
        /\ output' = Called("setItem", io, value, setItemSettled(io),
                            setItemSettled(io))
        /\ UNCHANGED <<minted, auth, images, started, faults, tasks, input>>

\* await secureStorage.getItem(TOKEN_KEY)
Load ==
    \E io \in IOOutcomes :
        /\ lastIO' = io
        /\ output' = Called("getItem", io, getItem(store, io), "fulfilled",
                            "fulfilled")
        /\ UNCHANGED <<store, minted, auth, images, started, faults, tasks,
                       input>>

\* await authApi.logout(): await secureStorage.deleteItem(TOKEN_KEY)
Clear ==
    \E io \in IOOutcomes :
        /\ store' = deleteItem(store, io)
        /\ lastIO' = io
        /\ output' = Called("deleteItem", io, NoTokens, deleteItemSettled(io),
                            logoutSettled(deleteItemSettled(io)))
        /\ UNCHANGED <<minted, auth, images, started, faults, tasks, input>>

StorageNext == Save \/ Load \/ Clear

StorageSpec == StorageInit /\ [][StorageNext]_vars

\* ---------------------------------------------------------- type check
TypeOK ==
    /\ lastIO \in IOOutcomes \cup {"none"}
    /\ minted \in 1..MaxTok
    /\ started \in 0..MaxStarts
    /\ faults \in 0..MaxFaults
    /\ \A t \in Running :
         /\ t.pc \in {"hasToken", "attach", "sent", "refreshing",
                      "resolved", "logout"}
         /\ t.ndisp \in 0..2

\* ------------------------------------------------------------ claims
\* one thunk t took a step and became t2
Step(t, t2) ==
    /\ t # t2
    /\ tasks' = (tasks (-) SetToBag({t})) (+) SetToBag({t2})

\* the request of t went through a refresh call that succeeded / failed
Refreshed(t) == t.newAccess # 0
RefreshFailed(t) == t.pc = "resolved" /\ t.nrefresh > 0 /\ t.newAccess = 0

\* C1: a request whose first response is 401 and whose refresh call
\* succeeds has made exactly one refresh call, is re-dispatched exactly
\* once, and the answer to the re-dispatch is the result the caller gets.
C1_OneRefreshOneRetry ==
    \A t \in Running :
        Refreshed(t) =>
            /\ t.nrefresh = 1
            /\ t.ndisp \in {1, 2}
            /\ t.pc = "attach" => t.ndisp = 1
            /\ t.pc \in {"sent", "resolved"} => t.ndisp = 2
            /\ t.pc = "resolved" =>
                   t.res = IF t.lastResp = 200 THEN Success
                           ELSE RequestError(t.lastResp)

C1_Witness ==
    \E t \in Running :
        /\ t.pc = "resolved" /\ Refreshed(t)
        /\ t.ndisp = 2 /\ t.nrefresh = 1 /\ t.res.ok

\* C2: a request whose retry marker is set and that receives 401 again is
\* rejected with that 401, with no further refresh call and no further
\* dispatch; no request ever makes more than one refresh call.
C2_NoSecondRefresh ==
    /\ [](\A t \in Running : t.nrefresh <= 1 /\ t.ndisp <= 2)
    /\ [][\A t \in Running, t2 \in BagToSet(tasks') :
            (t.pc = "sent" /\ t.retry /\ t2.lastResp = 401 /\ Step(t, t2)) =>
                /\ t2.pc = "resolved"
                /\ t2.res = RequestError(401)
                /\ t2.nrefresh = t.nrefresh
                /\ t2.ndisp = t.ndisp
                /\ store' = store]_vars

C2_Witness ==
    \E t \in Running :
        /\ t.pc = "resolved" /\ t.retry /\ t.ndisp = 2 /\ t.nrefresh = 1
        /\ t.res = RequestError(401)

\* C3: when the refresh call fails, the failure the caller gets is the
\* original 401 of the request, so its status is 401 and its kind is
\* authentication, whatever made the refresh fail.
C3_OriginalFailureDelivered ==
    \A t \in Running :
        RefreshFailed(t) =>
            /\ t.res = RequestError(401)
            /\ handleApiError(t.res).status = 401
            /\ parseLoginError(handleApiError(t.res)).type = "authentication"

\* C4 as stated: when the refresh call fails, the store is empty by the
\* time the failure is delivered to the caller.
C4_StoreEmptyAfterRefreshFailure ==
    [][\A t \in Running, t2 \in BagToSet(tasks') :
          (t.pc = "refreshing" /\ RefreshFailed(t2) /\ Step(t, t2)) =>
              store' = NoTokens]_vars

\* C4 as amended: when the refresh call fails, the store is empty by the
\* time the failure is delivered, provided the platform's delete call did
\* not throw; a delete that throws is swallowed and leaves the store as it
\* was.
C4_StoreEmptyUnlessDeleteThrows ==
    [][\A t \in Running, t2 \in BagToSet(tasks') :
          (t.pc = "refreshing" /\ RefreshFailed(t2) /\ Step(t, t2)) =>
              /\ lastIO' = "ok" => store' = NoTokens
              /\ lastIO' = "fail" => store' = store
              /\ lastIO' # "none"]_vars

C4_Witness ==
    /\ store = NoTokens
    /\ lastIO = "ok"
    /\ \E t \in Running : RefreshFailed(t) /\ t.parsed # NoTokens

\* C5 as stated: every request dispatched while the store holds a pair
\* carries Authorization: Bearer <the access token in the store at that
\* moment>; with an empty store it is dispatched without the header.
C5_HeaderIsStoredAccess ==
    [][\A t \in Running, t2 \in BagToSet(tasks') :
          (t.pc = "attach" /\ Step(t, t2)) =>
              /\ t2.pc = "sent"
              /\ t2.hdr = IF store # NoTokens THEN store.access ELSE 0]_vars

\* C5 as amended: every request is dispatched, never failed locally, and
\* carries Authorization: Bearer <access> of the pair its request
\* interceptor read from the store at that moment.  When the read yields
\* nothing (the store is empty, or the platform read threw, which getItem
\* swallows) a first dispatch carries no Authorization header and a
\* re-dispatch after a refresh keeps the header the response interceptor
\* set, the refreshed access token.
C5_HeaderIsAccessRead ==
    [][\A t \in Running, t2 \in BagToSet(tasks') :
          (t.pc = "attach" /\ Step(t, t2)) =>
              /\ t2.pc = "sent"
              /\ t2.ndisp = t.ndisp + 1
              /\ lastIO' \in IOOutcomes
              /\ store' = store
              /\ (lastIO' = "ok" /\ store # NoTokens) => t2.hdr = store.access
              /\ (lastIO' = "fail" \/ store = NoTokens) =>
                     t2.hdr = IF t.retry THEN t.newAccess ELSE 0]_vars

C5_Witness ==
    /\ lastIO = "ok"
    /\ store # NoTokens
    /\ \E t \in Running :
          t.pc = "sent" /\ t.ndisp = 1 /\ t.hdr = store.access

\* C6: after a successful refresh the re-dispatched request carries the
\* access token that refresh call returned, also when the store write
\* failed silently and when other thunks wrote the store in between.
C6_RetryCarriesRefreshedToken ==
    [][\A t \in Running, t2 \in BagToSet(tasks') :
          (t.pc = "attach" /\ Refreshed(t) /\ Step(t, t2)) =>
              t2.hdr = t.newAccess]_vars

\* C7: a refresh call is issued only on a 401 answer to a request whose
\* retry marker is not set; a request that fails in any other way (no
\* response, 400, 403, 429, 500) makes no refresh call, is not dispatched
\* again, leaves the store alone, and its failure reaches the caller
\* unchanged.
C7_OnlyUnauthorizedRefreshes ==
    [][\A t \in Running, t2 \in BagToSet(tasks') :
          Step(t, t2) =>
              /\ t2.nrefresh > t.nrefresh =>
                     /\ t.pc = "sent" /\ ~t.retry
                     /\ t2.lastResp = 401 /\ t2.retry
                     /\ t2.nrefresh = t.nrefresh + 1
              /\ (t.pc = "sent" /\ t2.lastResp \notin {200, 401}) =>
                     /\ t2.pc = "resolved"
                     /\ t2.res = RequestError(t2.lastResp)
                     /\ t2.nrefresh = t.nrefresh
                     /\ t2.ndisp = t.ndisp
                     /\ t2.retry = t.retry
                     /\ store' = store]_vars

C7_Witness ==
    \E t \in Running :
        /\ t.pc = "resolved" /\ t.res = RequestError(403)
        /\ t.nrefresh = 0 /\ t.ndisp = 1 /\ ~t.retry
        /\ store # NoTokens

\* C8 as stated: every request that receives 401 (retry marker not set)
\* while the store holds a pair issues its own refresh call, whatever
\* other refresh calls are in flight.
C8_EachUnauthorizedRefreshes ==
    [][\A t \in Running, t2 \in BagToSet(tasks') :
          (t.pc = "sent" /\ ~t.retry /\ t2.lastResp = 401
             /\ store # NoTokens /\ Step(t, t2)) =>
              /\ t2.pc = "refreshing"
              /\ t2.nrefresh = t.nrefresh + 1]_vars

\* C8 as amended: every request that receives 401 (retry marker not set)
\* and then reads a pair from the store (the store holds one and the
\* platform read does not throw) issues its own refresh call with the
\* refresh token it read, whatever other refresh calls are in flight; no
\* request waits for or reuses the refresh of another.
C8_EachReaderRefreshes ==
    [][\A t \in Running, t2 \in BagToSet(tasks') :
          (t.pc = "sent" /\ ~t.retry /\ t2.lastResp = 401 /\ Step(t, t2)) =>
              /\ (store # NoTokens /\ lastIO' = "ok") =>
                     /\ t2.pc = "refreshing"
                     /\ t2.nrefresh = t.nrefresh + 1
                     /\ t2.parsed = store
              /\ (store = NoTokens \/ lastIO' = "fail") =>
                     /\ t2.pc = "resolved"
                     /\ t2.nrefresh = t.nrefresh]_vars

\* two refresh calls in flight at once, both with the same refresh token
C8_Witness ==
    \E t, u \in Running :
        /\ t.pc = "refreshing" /\ u.pc = "refreshing"
        /\ t # u \/ CopiesIn(t, tasks) >= 2
        /\ t.parsed.refresh = u.parsed.refresh

\* no thunk is in flight and the app has started
Quiescent == booted /\ tasks = EmptyBag

\* C9: whenever no login, logout, checkAuthStatus or refresh is in
\* progress, auth.isAuthenticated holds exactly when the store holds a
\* pair.  (Stated for runs in which no platform storage call has thrown.)
C9_AuthenticatedIffStored ==
    (Quiescent /\ faults = 0) =>
        (auth.isAuthenticated <=> store # NoTokens)

\* C10: whenever a refresh fails during a request of an authenticated
\* session, the session eventually becomes unauthenticated.  After the
\* rejected thunk settles no timer, listener or effect of the program is
\* pending: only a user-started logout can change auth.isAuthenticated.
C10_RefreshFailureLogsOut ==
    (\E t \in Running : RefreshFailed(t)) ~> ~auth.isAuthenticated

\* the statuses parseLoginError has a case for
SwitchStatuses == {400, 401, 403, 429, 500, 502, 503}

\* C17: for every failure object that carries one of the statuses 400,
\* 401, 403, 429, 500, 502, 503 parseLoginError returns, whatever the
\* message and the body: 400 -> validation, not retryable; 401 and 403 ->
\* authentication, not retryable; 429, 500, 502, 503 -> server, retryable.
C17_StatusDecidesKind ==
    (output.op # "none" /\ output.apiError.shape = "object"
       /\ output.apiError.status \in SwitchStatuses) =>
        LET status == output.apiError.status
            r == output.result
        IN  /\ ~r.threw
            /\ r.type = CASE status = 400 -> "validation"
                          [] status \in {401, 403} -> "authentication"
                          [] OTHER -> "server"
            /\ r.retryable = (status \in {429, 500, 502, 503})

C17_Witness ==
    /\ output.op = "parseLoginError"
    /\ input.status = 429
    /\ input.message = "bad_credentials"
    /\ output.result.type = "server"
    /\ output.result.retryable

\* C18: every failure without HTTP status, whatever its message text, is
\* classified as kind network with retryable = true.
C18_StatuslessIsNetwork ==
    (output.op # "none" /\ output.apiError.shape = "object"
       /\ output.apiError.status = 0
       /\ output.apiError.message # "not_a_string") =>
        /\ output.result.type = "network"
        /\ output.result.retryable

\* C19: parseLoginError never throws: for every input value it returns a
\* LoginError whose kind is network, validation, authentication, server or
\* unknown.
C19_ClassifierNeverThrows ==
    output.op = "parseLoginError" =>
        /\ ~output.result.threw
        /\ output.result.type \in
               {"network", "validation", "authentication", "server", "unknown"}

\* C20: a failure with status 400 whose response body is
\* {username: [...]} is classified as kind validation with a message that
\* includes the username-field detail of the body.
C20_UsernameDetailInMessage ==
    (output.op = "handleApiError" /\ input.status = 400
       /\ input.body = {"username"}) =>
        /\ output.result.type = "validation"
        /\ output.result.message = output.apiError.message
        /\ output.apiError.message = "username_detail"

\* C12: save(pair) fails visibly to its caller whenever the platform
\* rejects the write; a rejected write is never reported as a successful
\* save.
C12_RejectedWriteIsVisible ==
    (output.op = "setItem" /\ output.io = "fail") =>
        output.settled = "rejected"

\* C13: clear() is idempotent and never raises: on an empty store it
\* leaves the store empty, a second clear in a row (the platform behaving
\* as in the first) changes nothing, a clear the platform carries out
\* leaves the store empty, and neither deleteItem nor authApi.logout
\* rejects.
C13_ClearIsIdempotent ==
    [][output'.op = "deleteItem" =>
          /\ output'.settled = "fulfilled"
          /\ output'.caller = "fulfilled"
          /\ store = NoTokens => store' = NoTokens
          /\ output'.io = "ok" => store' = NoTokens
          /\ (output.op = "deleteItem" /\ output.io = output'.io) =>
                 store' = store]_vars

\* the platform threw while an already-empty store was cleared
C13_Witness ==
    /\ output.op = "deleteItem"
    /\ output.before = NoTokens
    /\ output.io = "fail"
    /\ output.settled = "fulfilled"
    /\ store = NoTokens

\* C14: a successful refresh writes the pair made of the access token the
\* refresh call returned and the refresh token that was sent in that call;
\* a refresh token in the response is ignored.
C14_RefreshKeepsRefreshToken ==
    [][\A t \in Running, t2 \in BagToSet(tasks') :
          (t.pc = "refreshing" /\ Refreshed(t2) /\ Step(t, t2)) =>
              /\ t2.newAccess = minted'
              /\ lastIO' \in IOOutcomes
              /\ lastIO' = "ok" =>
                     store' = [access |-> t2.newAccess,
                               refresh |-> t.parsed.refresh]
              /\ lastIO' = "fail" => store' = store]_vars

C14_Witness ==
    /\ lastIO = "ok"
    /\ \E t \in Running :
          /\ t.pc = "attach" /\ Refreshed(t)
          /\ store = [access |-> t.newAccess, refresh |-> t.parsed.refresh]
          /\ store.access # store.refresh

\* the store is empty or holds a pair with both fields
StoreComplete == store = NoTokens \/ (store.access # 0 /\ store.refresh # 0)

\* C15: in every reachable state the store is empty or holds a pair with
\* both access and refresh non-empty, and a refresh call that fails
\* persists nothing (its step leaves the store as it was or empty).
C15_NoPartialPair ==
    /\ []StoreComplete
    /\ [][\A t \in Running, t2 \in BagToSet(tasks') :
             (t.pc = "refreshing" /\ ~Refreshed(t2) /\ Step(t, t2)) =>
                 store' \in {store, NoTokens}]_vars

C15_Witness ==
    /\ minted > 1
    /\ store = NoTokens
    /\ lastIO = "ok"
    /\ \E t \in Running : RefreshFailed(t)

\* C16: the auth session state never holds a TokenPair that differs from
\* the content of the store.  (Stated for runs in which no platform
\* storage call has thrown.)
C16_NoDivergingCopy ==
    (faults = 0 /\ auth.tokens # NoTokens) => auth.tokens = store

\* the thunk t is a loginUser at its GET /me/
LoginAtMe(t) == t.kind = "loginUser" /\ t.url = "/me/"

C21_LastWriteWins ==
    [][\A t \in Running :
          t.pc = "refreshing" =>
              \A t2 \in BagToSet(tasks') :
                  (t2.pc \in {"attach", "resolved"} /\ lastIO' = "ok"
                     /\ Step(t, t2)) =>
                      store' = IF Refreshed(t2)
                               THEN [access |-> t2.newAccess,
                                     refresh |-> t.parsed.refresh]
                               ELSE NoTokens]_vars

\* two requests refreshed on the same pair; one holds a new access token,
\* the refresh of the other failed last and the store is empty
C21_Witness ==
    \E t \in Running, u \in Running :
        /\ Refreshed(t) /\ RefreshFailed(u)
        /\ t.parsed = u.parsed
        /\ faults = 0
        /\ store = NoTokens

\* C22: in the default branch of the classifier (a value with no status or
\* a status outside 400/401/403/429/500/502/503, and not the status-less
\* network case), for a message that is a text or absent, the kind is
\* unknown and retryable, unless the message contains a keyword; the
\* keywords are tested in this order and the first match wins: username ->
\* validation, not retryable; password -> authentication, not retryable;
\* one of the two timeout words -> network, retryable.
C22_FallbackKeywordOrder ==
    (output.op \in {"parseLoginError", "handleApiError"}
       /\ output.apiError.shape \in {"string", "object"}
       /\ output.apiError.status \notin SwitchStatuses
       /\ ~(output.apiError.status = 0
              /\ Includes(output.apiError.message, "network"))
       /\ output.apiError.message # "not_a_string") =>
        LET message == output.apiError.message
            r == output.result
        IN  /\ ~r.threw
            /\ r.type =
                 IF Includes(message, "username") THEN "validation"
                 ELSE IF Includes(message, "password") THEN "authentication"
                 ELSE IF Includes(message, "timeout_cn")
                         \/ Includes(message, "timeout") THEN "network"
                 ELSE "unknown"
            /\ r.retryable =
                 ~(Includes(message, "username")
                     \/ Includes(message, "password"))

\* a message with both the username and the password word, status 404
C22_Witness ==
    /\ output.op = "parseLoginError"
    /\ input.status = 404
    /\ input.message = "bad_credentials"
    /\ output.result.type = "validation"
    /\ ~output.result.retryable

\* the request of t is on its way: the caller's promise is still pending
InFlight(t) == t.pc \in {"attach", "sent", "refreshing"}

\* the number of interceptor and network steps a request has left at most
Rank(t) ==
    CASE t.pc = "refreshing" -> 3
      [] t.pc = "attach" -> IF t.retry THEN 2 ELSE 5
      [] t.pc = "sent" -> IF t.retry THEN 1 ELSE 4
      [] OTHER -> 0

\* C23: every request terminates after a bounded number of steps: it is
\* dispatched at most twice and makes at most one refresh call; each step
\* of a request brings it nearer to its result, and the answer to a
\* refresh call leads to the retry or to the rejection, never to another
\* refresh; and when every await completes, every pending request ends
\* with a result or an error for its caller.
C23_BoundedTermination ==
    /\ [](\A t \in Running :
            t.ndisp <= 2 /\ t.nrefresh <= 1 /\ Rank(t) \in 0..5)
    /\ [][\A t \in Running :
            InFlight(t) =>
                \A t2 \in BagToSet(tasks') :
                    (t2.kind = t.kind /\ Step(t, t2)) =>
                        /\ t2.url = t.url
                        /\ Rank(t2) < Rank(t)
                        /\ t.pc = "refreshing" =>
                               /\ t2.nrefresh = t.nrefresh
                               /\ t2.pc \in {"attach", "resolved"}]_vars
    /\ (\E t \in Running : InFlight(t)) ~> (\A t \in Running : ~InFlight(t))

\* a request used its refresh and its retry and was answered
C23_Witness ==
    \E t \in Running :
        /\ t.pc = "resolved" /\ Rank(t) = 0
        /\ t.ndisp = 2 /\ t.nrefresh = 1
        /\ t.lastResp = 500

\* C24: a request that receives 401 while the store is empty makes no
\* refresh call and is not dispatched again; the store stays empty and the
\* caller gets the original 401.
C24_EmptyStoreNoRefresh ==
    [][\A t \in Running :
          (t.pc = "sent" /\ ~t.retry /\ store = NoTokens) =>
              \A t2 \in BagToSet(tasks') :
                  (t2.lastResp = 401 /\ t2.kind = t.kind /\ Step(t, t2)) =>
                      /\ t2.pc = "resolved"
                      /\ t2.res = RequestError(401)
                      /\ t2.nrefresh = t.nrefresh
                      /\ t2.ndisp = t.ndisp
                      /\ store' = NoTokens]_vars

\* a first 401 was delivered at once, with the store empty
C24_Witness ==
    \E t \in Running :
        /\ t.pc = "resolved" /\ t.res = RequestError(401)
        /\ t.ndisp = 1 /\ t.nrefresh = 0 /\ t.retry
        /\ store = NoTokens
        /\ faults = 0

\* C25: once a logout has completed the store stays empty until the next
\* successful login: a store that is empty while the session is logged out
\* gets a pair again only by the save of a login whose POST /token/
\* succeeded, never by the write of a refresh started earlier.
C25_EmptyUntilNextLogin ==
    [][(store = NoTokens /\ ~auth.isAuthenticated /\ store' # NoTokens) =>
          \E t \in Running :
              /\ t.kind = "loginUser" /\ t.url = "/token/"
              /\ t.pc = "resolved" /\ t.res.ok
              /\ store' = t.data]_vars

\* C26: after logoutUser is fulfilled isAuthenticated stays false until a
\* later loginUser or checkAuthStatus is dispatched: a session that is
\* logged out becomes authenticated only by the completion of a loginUser
\* or a checkAuthStatus, never by that of a getCurrentUser still in flight.
C26_LoggedOutUntilNextLogin ==
    [][(~auth.isAuthenticated /\ auth'.isAuthenticated) =>
          \E t \in Running :
              /\ t.kind \in {"loginUser", "checkAuthStatus"}
              /\ t.pc = "resolved" /\ t.res.ok
              /\ tasks' = tasks (-) SetToBag({t})]_vars

\* C27: when loginUser ends rejected the store holds no pair from that
\* attempt: if POST /token/ succeeded and GET /me/ then failed, the pair
\* saved in between has been removed again.
C27_RejectedLoginLeavesNoPair ==
    [][\A t \in Running :
          (LoginAtMe(t) /\ t.pc = "resolved" /\ ~t.res.ok
             /\ tasks' = tasks (-) SetToBag({t})) =>
              /\ ~auth'.isAuthenticated
              /\ store'.refresh # t.data.refresh]_vars

\* C28: checkAuthStatus never ends rejected; it ends with isAuthenticated =
\* true exactly when the store held a pair and GET /me/ succeeded; and
\* whenever GET /me/ fails, for any reason, the stored pair is deleted and
\* the session is unauthenticated.
C28_CheckAuthStatusClears ==
    [][\A t \in Running :
          (t.kind = "checkAuthStatus"
             /\ tasks' = tasks (-) SetToBag({t})) =>
              /\ ~auth'.isLoading
              /\ auth'.isAuthenticated =
                     (t.url = "/me/" /\ t.pc = "resolved" /\ t.res.ok)
              /\ (t.url = "/me/" /\ ~t.res.ok) => store' = NoTokens]_vars

\* C28 as amended: checkAuthStatus never ends rejected; it ends with
\* isAuthenticated = true exactly when hasValidToken read a pair from the
\* store and GET /me/ succeeded, possibly after one refresh and retry;
\* whenever GET /me/ fails the session is unauthenticated, and the stored
\* pair is deleted provided the platform's delete does not throw: a
\* throwing delete is swallowed and leaves the store as it was.
C28_CheckAuthStatusClearsUnlessDeleteThrows ==
    [][\A t \in Running :
          (t.kind = "checkAuthStatus"
             /\ tasks' = tasks (-) SetToBag({t})) =>
              /\ ~auth'.isLoading
              /\ auth'.error = auth.error
              /\ auth'.isAuthenticated =
                     (t.url = "/me/" /\ t.pc = "resolved" /\ t.res.ok)
              /\ auth'.isAuthenticated =>
                     /\ t.ndisp = 1 + t.nrefresh
                     /\ store' = store
              /\ (t.url = "/me/" /\ ~t.res.ok) =>
                     store' = IF lastIO' = "ok" THEN NoTokens ELSE store
              /\ t.url # "/me/" =>
                     /\ t.pc = "hasToken"
                     /\ store' = store
                     /\ lastIO' = "ok" => store = NoTokens]_vars

\* checkAuthStatus refreshed once, its retried GET /me/ failed, and it ended
\* unauthenticated with the store emptied
C28_Witness ==
    /\ tasks = EmptyBag
    /\ started = 1
    /\ minted = 2
    /\ faults = 0
    /\ lastIO = "ok"
    /\ store = NoTokens
    /\ ~auth.isAuthenticated /\ ~auth.isLoading

\* C29: for a login the backend fails with status 400, 401, 403, 429 or
\* 500, the classified error the login screen shows, loginError as well as
\* the toast, has the kind and the retryable flag parseLoginError gives to
\* that status directly; a 401 is shown as kind authentication.
C29_ScreenShowsStatusKind ==
    (output.op = "loginUser" /\ input.status \in {400, 401, 403, 429, 500}) =>
        LET direct == parseLoginError(Value("object", input.status, "absent"))
        IN  /\ output.loginError.type = direct.type
            /\ output.loginError.retryable = direct.retryable
            /\ output.toast.type = direct.type
            /\ output.toast.retryable = direct.retryable

\* C30: the login request POST /token/ never triggers a refresh and is
\* never sent twice: whatever the store holds, a 401 on it makes no
\* refresh call, the credentials are not submitted again, and the caller
\* gets that 401.
C30_LoginNeverRefreshes ==
    \A t \in Running :
        (t.kind = "loginUser" /\ t.url = "/token/") =>
            /\ t.nrefresh = 0
            /\ t.ndisp <= 1
            /\ (t.pc = "resolved" /\ ~t.res.ok) =>
                   t.res = RequestError(t.lastResp)

====
